---- MODULE Spec2Model ----
(***************************************************************************)
(* Model of the gtest registration-and-execution engine:                   *)
(* gtest::TestFramework / gtest::TestBase (g_test_framework.hpp/.cpp).     *)
(*                                                                         *)
(* Test cases are constructed (and thereby registered) while no run is in  *)
(* progress; executeTests() prints the header, runs every registered case  *)
(* in turn, prints one row per case and finally the summary.  A test body  *)
(* is arbitrary user code: it is modelled as any sequence of GCHECK calls  *)
(* ended by a return or by a thrown exception.                             *)
(***************************************************************************)
EXTENDS Integers, Sequences, FiniteSets, TLC

\* ---------------------------------------------------------------- bounds
MaxTests == 2        \* test case objects that may be constructed
MaxChecks == 3       \* GCHECK calls made by all test bodies together
MaxRuns == 2         \* calls of executeTests()

\* ---------------------------------------------------------------- inputs
Cases == 1 .. MaxTests                 \* the TestBase objects, numbered in the
                                       \* order of their construction
CheckNames == {"sum"}                  \* names handed to the 3-argument GCHECK
Results == {5}                         \* `result` arguments of GCHECK (Type = int)
Expecteds == {5, 6}                    \* `expected` arguments of GCHECK

\* #TestName of the GTEST class whose static instance is the object c
NamePool == <<"Add", "Throws", "BoolCheck", "Empty">>
TestNameOf(c) == NamePool[((c - 1) % Len(NamePool)) + 1]

\* Objects a test body may throw.  derivesStdException tells whether the
\* handler `catch (const std::exception &)` matches the object.
RuntimeError ==
    [derivesStdException |-> TRUE, what |-> "boom", typeName |-> "St13runtime_error"]
ThrownInt ==
    [derivesStdException |-> FALSE, what |-> "", typeName |-> "i"]
Throwables == {RuntimeError, ThrownInt}

VARIABLES
    tests_,                  \* TestFramework::tests_ : sequence of case ids
    numberOfExecutedTests_,  \* TestFramework::numberOfExecutedTests_
    testResult_,             \* case id -> TestBase::testResult_
    pc,                      \* where the driver is: idle, loop, body, done,
                             \* aborted, exited
    idx,                     \* position of the range-for over tests_
    out,                     \* what the current (or else the last) call of
                             \* executeTests() has written to cout, in order
    runs,                    \* calls of executeTests() so far
    exitCode,                \* <<v>> once main has returned v, <<>> before
    gcheckCalls,             \* history: case id -> GCHECK calls made so far
    executions,              \* history: case id -> times its body was entered
    test,                    \* the loop variable `test` of the range-for
    started,                 \* history: case ids in the order execute() was
                             \* entered by the current call of executeTests()
    event                    \* history: the step taken last, with its inputs

vars == <<tests_, numberOfExecutedTests_, testResult_, pc, idx, out, runs,
          exitCode, gcheckCalls, executions, test, started, event>>

\* ---------------------------------------------------------------- data
\* struct TestResult as default-constructed
EmptyTestResult ==
    [testName |-> "", numberExecutedChecks |-> 0,
     failedChecks |-> <<>>, exceptions |-> <<>>]

FailedCheck(checkNr, name, message) ==
    [checkNumber |-> checkNr, checkName |-> name, failMessage |-> message]

ExceptionInfo(e) == [message |-> e.what, type |-> e.typeName]

\* operator<< of an int into the stringstream
Render(v) == ToString(v)

FailMessage(result, expected) ==
    "Result: " \o Render(result) \o " | Expected: " \o Render(expected)

\* ---------------------------------------------------------------- mutants
\* Variants of the definitions below, each changed the way a slip in the code
\* would change it; they are used only to show that the properties notice.

\* counts a check only when it fails
GCHECK_countsFailuresOnly(r, name, result, expected) ==
    IF result /= expected
    THEN [r EXCEPT !.numberExecutedChecks = @ + 1,
                   !.failedChecks =
                      Append(@, FailedCheck(r.numberExecutedChecks + 1, name,
                                            FailMessage(result, expected)))]
    ELSE r

\* numbers a failed check by its position among the failed checks
GCHECK_numbersFailures(r, name, result, expected) ==
    LET counted == [r EXCEPT !.numberExecutedChecks = @ + 1]
    IN  IF result /= expected
        THEN [counted EXCEPT !.failedChecks =
                Append(@, FailedCheck(Len(r.failedChecks) + 1, name,
                                      FailMessage(result, expected)))]
        ELSE counted

\* numbers a failed check with the counter as it was before the increment
GCHECK_preIncrement(r, name, result, expected) ==
    LET counted == [r EXCEPT !.numberExecutedChecks = @ + 1]
    IN  IF result /= expected
        THEN [counted EXCEPT !.failedChecks =
                Append(@, FailedCheck(r.numberExecutedChecks, name,
                                      FailMessage(result, expected)))]
        ELSE counted

\* catch (...) instead of catch (const std::exception &)
Catches_all(e) == TRUE

\* the handler also clears the failed checks recorded so far
Caught_clearsFailedChecks(r, e) ==
    [r EXCEPT !.exceptions = Append(@, ExceptionInfo(e)), !.failedChecks = <<>>]

\* FAILED is tested before EXCEPTION
StatusOf_failedFirst(result) ==
    IF result.failedChecks /= <<>> THEN "FAILED"
    ELSE IF result.exceptions /= <<>> THEN "EXCEPTION"
    ELSE IF result.numberExecutedChecks > 0 THEN "PASSED"
    ELSE "NOT PERFORMED"

\* mutant: a failed check is recorded but the check is not counted
GCHECK_doesNotCount(r, name, result, expected) ==
    IF result /= expected
    THEN [r EXCEPT !.failedChecks =
            Append(@, FailedCheck(r.numberExecutedChecks + 1, name,
                                  FailMessage(result, expected)))]
    ELSE [r EXCEPT !.numberExecutedChecks = @ + 1]

\* ---------------------------------------------------------------- TestBase
\* TestBase::GCHECK(name, result, expected) applied to a TestResult
GCHECK(r, name, result, expected) ==
    LET counted == [r EXCEPT !.numberExecutedChecks = @ + 1]
    IN  IF result /= expected
        THEN [counted EXCEPT !.failedChecks =
                Append(@, FailedCheck(counted.numberExecutedChecks, name,
                                      FailMessage(result, expected)))]
        ELSE counted

\* TestBase::GCHECK(result, expected): forwards with the empty name
GCHECK2(r, result, expected) == GCHECK(r, "", result, expected)

\* the handler of TestBase::execute(): catch (const std::exception &)
Catches(e) == e.derivesStdException

Caught(r, e) == [r EXCEPT !.exceptions = Append(@, ExceptionInfo(e))]

\* ---------------------------------------------------------------- reporting
Header ==
    [kind |-> "header",
     columns |-> <<"#", "Test Name", "Checks", "Failed", "Status">>]

\* the status chosen by printTestResultTableRow
StatusOf(result) ==
    IF result.exceptions /= <<>> THEN "EXCEPTION"
    ELSE IF result.failedChecks /= <<>> THEN "FAILED"
    ELSE IF result.numberExecutedChecks > 0 THEN "PASSED"
    ELSE "NOT PERFORMED"

printTestResultTableRow(testNo, result) ==
    [kind |-> "row", testNo |-> testNo, testName |-> result.testName,
     checks |-> result.numberExecutedChecks,
     failed |-> Len(result.failedChecks), status |-> StatusOf(result)]

\* std::accumulate(tests_.begin(), tests_.end(), 0, acc), where acc adds
\* term[c] for the test c
RECURSIVE Accumulate(_, _)
Accumulate(ts, term) ==
    IF ts = <<>> THEN 0
    ELSE Accumulate(SubSeq(ts, 1, Len(ts) - 1), term) + term[ts[Len(ts)]]

numberOfExecutedChecks(ts, results) ==
    Accumulate(ts, [c \in Cases |-> results[c].numberExecutedChecks])

\* mutant: captured exceptions are counted as failed checks too
numberOfFailedChecks_countsExceptions(ts, results) ==
    Accumulate(ts, [c \in Cases |-> Len(results[c].failedChecks)
                                      + Len(results[c].exceptions)])

numberOfFailedChecks(ts, results) ==
    Accumulate(ts, [c \in Cases |-> Len(results[c].failedChecks)])

\* mutant: the checks of a case ended by an exception are left out
getNumberOfExecutedChecks_skipsExceptionCases(ts, results) ==
    Accumulate(ts, [c \in Cases |-> IF results[c].exceptions /= <<>> THEN 0
                                    ELSE results[c].numberExecutedChecks])

getNumberOfExecutedChecks(ts, results) ==
    Accumulate(ts, [c \in Cases |-> results[c].numberExecutedChecks])

passedTestFilter(r) == r.failedChecks = <<>> /\ r.numberExecutedChecks > 0
failedTestFilter(r) == Len(r.failedChecks) > 0
exceptionFilter(r) == Len(r.exceptions) > 0

getPassedTests(ts, results) ==
    SelectSeq(ts, LAMBDA c : passedTestFilter(results[c]))
\* mutant: a case with a captured exception is not listed as failed
getFailedTests_withoutExceptions(ts, results) ==
    SelectSeq(ts, LAMBDA c : failedTestFilter(results[c])
                             /\ ~exceptionFilter(results[c]))
getFailedTests(ts, results) ==
    SelectSeq(ts, LAMBDA c : failedTestFilter(results[c]))
getTestsWithExceptions(ts, results) ==
    SelectSeq(ts, LAMBDA c : exceptionFilter(results[c]))

\* the lines printed by `for (test : ts) for (item : ...)`, where
\* lines[c] are the lines of the inner loop for the test c
RECURSIVE Lines(_, _)
Lines(ts, lines) ==
    IF ts = <<>> THEN <<>>
    ELSE lines[Head(ts)] \o Lines(Tail(ts), lines)

printTestSummary(ts, results) ==
    LET passedTests == getPassedTests(ts, results)
        failedTests == getFailedTests(ts, results)
        testsWithExceptions == getTestsWithExceptions(ts, results)
        noPassedTests == Len(passedTests)
        noFailedTests == Len(failedTests)
        noTestsWithExceptions == Len(testsWithExceptions)
        failedLines ==
            [c \in Cases |->
                [k \in 1 .. Len(results[c].failedChecks) |->
                    [testName |-> results[c].testName,
                     checkNumber |-> results[c].failedChecks[k].checkNumber,
                     checkName |-> results[c].failedChecks[k].checkName,
                     failMessage |-> results[c].failedChecks[k].failMessage]]]
        exceptionLines ==
            [c \in Cases |->
                [k \in 1 .. Len(results[c].exceptions) |->
                    [testName |-> results[c].testName,
                     type |-> results[c].exceptions[k].type,
                     message |-> results[c].exceptions[k].message]]]
    IN  [kind |-> "summary",
         result |-> IF numberOfFailedChecks(ts, results) = 0
                    THEN "SUCCESS!" ELSE "FAILED",
         noExecutedChecks |-> getNumberOfExecutedChecks(ts, results),
         noTests |-> Len(ts),
         passedFailedLine |-> IF noFailedTests > 0
                              THEN <<noPassedTests, noFailedTests>> ELSE <<>>,
         exceptionLine |-> IF noTestsWithExceptions > 0
                           THEN <<noTestsWithExceptions>> ELSE <<>>,
         failedLines |-> Lines(failedTests, failedLines),
         exceptionLines |-> Lines(testsWithExceptions, exceptionLines)]

\* ---------------------------------------------------------------- behaviour
Range(s) == {s[i] : i \in 1 .. Len(s)}

\* history: GCHECK calls made so far by all bodies together
RECURSIVE SumUpTo(_, _)
SumUpTo(f, n) == IF n = 0 THEN 0 ELSE SumUpTo(f, n - 1) + f[n]
ChecksMade == SumUpTo(gcheckCalls, MaxTests)

Init ==
    /\ tests_ = <<>>
    /\ numberOfExecutedTests_ = 0
    /\ testResult_ = [c \in Cases |-> EmptyTestResult]
    /\ pc = "idle"
    /\ idx = 0
    /\ out = <<>>
    /\ runs = 0
    /\ exitCode = <<>>
    /\ gcheckCalls = [c \in Cases |-> 0]
    /\ executions = [c \in Cases |-> 0]
    /\ test = 0
    /\ started = <<>>
    /\ event = [op |-> "init"]

\* mutant: registerTest inserts at the front of tests_
Construct_pushFront(c) ==
    /\ pc \in {"idle", "done"}
    /\ c = Len(tests_) + 1
    /\ tests_' = <<c>> \o tests_
    /\ testResult_' = [testResult_ EXCEPT ![c].testName = TestNameOf(c)]
    /\ event' = [op |-> "construct", c |-> c]
    /\ UNCHANGED <<numberOfExecutedTests_, pc, idx, out, runs, gcheckCalls,
                   test, started, exitCode, executions>>

\* TestBase::TestBase(testName, fw): a test case object is constructed (the
\* GTEST macro's static instance) while no run is in progress;
\* framework_.registerTest(*this) is tests_.push_back(&test)
Construct(c) ==
    /\ pc \in {"idle", "done"}
    /\ c = Len(tests_) + 1
    /\ tests_' = Append(tests_, c)
    /\ testResult_' = [testResult_ EXCEPT ![c].testName = TestNameOf(c)]
    /\ event' = [op |-> "construct", c |-> c]
    /\ UNCHANGED <<numberOfExecutedTests_, pc, idx, out, runs, gcheckCalls,
                   test, started, exitCode, executions>>

\* TestFramework::executeTests() is called: the header is printed and the
\* range-for over tests_ begins
ExecuteTests ==
    /\ pc \in {"idle", "done"}
    /\ runs < MaxRuns
    /\ runs' = runs + 1
    /\ out' = <<Header>>
    /\ started' = <<>>
    /\ idx' = 1
    /\ pc' = "loop"
    /\ event' = [op |-> "executeTests"]
    /\ UNCHANGED <<tests_, numberOfExecutedTests_, testResult_, gcheckCalls,
                   test, exitCode, executions>>

\* mutant: the loop walks tests_ from its end
EnterBody_reversed ==
    /\ pc = "loop"
    /\ idx <= Len(tests_)
    /\ test' = tests_[Len(tests_) + 1 - idx]
    /\ pc' = "body"
    /\ started' = Append(started, tests_[Len(tests_) + 1 - idx])
    /\ executions' = [executions EXCEPT ![tests_[Len(tests_) + 1 - idx]] = @ + 1]
    /\ event' = [op |-> "enter"]
    /\ UNCHANGED <<tests_, numberOfExecutedTests_, testResult_, idx, out,
                   runs, gcheckCalls, exitCode>>

\* the loop takes the next test and calls test->execute(), which enters
\* testBody()
EnterBody ==
    /\ pc = "loop"
    /\ idx <= Len(tests_)
    /\ test' = tests_[idx]
    /\ pc' = "body"
    /\ started' = Append(started, tests_[idx])
    /\ executions' = [executions EXCEPT ![tests_[idx]] = @ + 1]
    /\ event' = [op |-> "enter"]
    /\ UNCHANGED <<tests_, numberOfExecutedTests_, testResult_, idx, out,
                   runs, gcheckCalls, exitCode>>

\* mutant: a failed check ends the body, as an assertion that throws would
CheckNamed_failureEndsBody(name, result, expected) ==
    /\ pc = "body"
    /\ ChecksMade < MaxChecks
    /\ testResult_' = [testResult_ EXCEPT
                         ![test] = GCHECK(@, name, result, expected)]
    /\ gcheckCalls' = [gcheckCalls EXCEPT ![test] = @ + 1]
    /\ event' = [op |-> "GCHECK", arity |-> 3, name |-> name,
                 result |-> result, expected |-> expected]
    /\ numberOfExecutedTests_' =
          IF result /= expected THEN numberOfExecutedTests_ + 1
          ELSE numberOfExecutedTests_
    /\ out' = IF result /= expected
              THEN Append(out, printTestResultTableRow(
                                  numberOfExecutedTests_ + 1, testResult_'[test]))
              ELSE out
    /\ idx' = IF result /= expected THEN idx + 1 ELSE idx
    /\ pc' = IF result /= expected THEN "loop" ELSE "body"
    /\ UNCHANGED <<tests_, runs, test, started, exitCode, executions>>

\* mutant: testResult_ is one object shared by all registered cases
CheckNamed_sharedResult(name, result, expected) ==
    /\ pc = "body"
    /\ ChecksMade < MaxChecks
    /\ testResult_' = [c \in Cases |->
                         IF c \in Range(tests_)
                         THEN GCHECK(testResult_[c], name, result, expected)
                         ELSE testResult_[c]]
    /\ gcheckCalls' = [gcheckCalls EXCEPT ![test] = @ + 1]
    /\ event' = [op |-> "GCHECK", arity |-> 3, name |-> name,
                 result |-> result, expected |-> expected]
    /\ UNCHANGED <<tests_, numberOfExecutedTests_, pc, idx, out, runs, test,
                   started, exitCode, executions>>

\* the running body calls GCHECK(name, result, expected)
CheckNamed(name, result, expected) ==
    /\ pc = "body"
    /\ ChecksMade < MaxChecks
    /\ testResult_' = [testResult_ EXCEPT
                         ![test] = GCHECK(@, name, result, expected)]
    /\ gcheckCalls' = [gcheckCalls EXCEPT ![test] = @ + 1]
    /\ event' = [op |-> "GCHECK", arity |-> 3, name |-> name,
                 result |-> result, expected |-> expected]
    /\ UNCHANGED <<tests_, numberOfExecutedTests_, pc, idx, out, runs, test,
                   started, exitCode, executions>>

\* mutant: the check counter is one static shared by all test cases
CheckUnnamed_sharedCounter(result, expected) ==
    /\ pc = "body"
    /\ ChecksMade < MaxChecks
    /\ testResult_' = [testResult_ EXCEPT
                         ![test] = GCHECK2([@ EXCEPT !.numberExecutedChecks =
                                                        ChecksMade],
                                           result, expected)]
    /\ gcheckCalls' = [gcheckCalls EXCEPT ![test] = @ + 1]
    /\ event' = [op |-> "GCHECK", arity |-> 2, name |-> "",
                 result |-> result, expected |-> expected]
    /\ UNCHANGED <<tests_, numberOfExecutedTests_, pc, idx, out, runs, test,
                   started, exitCode, executions>>

\* the running body calls GCHECK(result, expected)
CheckUnnamed(result, expected) ==
    /\ pc = "body"
    /\ ChecksMade < MaxChecks
    /\ testResult_' = [testResult_ EXCEPT
                         ![test] = GCHECK2(@, result, expected)]
    /\ gcheckCalls' = [gcheckCalls EXCEPT ![test] = @ + 1]
    /\ event' = [op |-> "GCHECK", arity |-> 2, name |-> "",
                 result |-> result, expected |-> expected]
    /\ UNCHANGED <<tests_, numberOfExecutedTests_, pc, idx, out, runs, test,
                   started, exitCode, executions>>

\* mutant: the loop ends after a case with a failed check or an exception
AfterExecute_stopsOnFailure(results) ==
    /\ testResult_' = results
    /\ numberOfExecutedTests_' = numberOfExecutedTests_ + 1
    /\ out' = Append(out, printTestResultTableRow(numberOfExecutedTests_ + 1,
                                                   results[test]))
    /\ idx' = IF results[test].failedChecks /= <<>>
                 \/ results[test].exceptions /= <<>>
              THEN Len(tests_) + 1 ELSE idx + 1
    /\ pc' = "loop"
    /\ UNCHANGED <<tests_, runs, gcheckCalls, test, started, exitCode,
                   executions>>

\* mutant: a case ended by a caught exception is not counted
AfterExecute_skipsExceptionCases(results) ==
    /\ testResult_' = results
    /\ numberOfExecutedTests_' =
          IF results[test].exceptions /= <<>>
          THEN numberOfExecutedTests_ ELSE numberOfExecutedTests_ + 1
    /\ out' = Append(out, printTestResultTableRow(numberOfExecutedTests_',
                                                   results[test]))
    /\ idx' = idx + 1
    /\ pc' = "loop"
    /\ UNCHANGED <<tests_, runs, gcheckCalls, test, started, exitCode,
                   executions>>

\* mutant: the row is printed before the counter is incremented
AfterExecute_rowBeforeIncrement(results) ==
    /\ testResult_' = results
    /\ numberOfExecutedTests_' = numberOfExecutedTests_ + 1
    /\ out' = Append(out, printTestResultTableRow(numberOfExecutedTests_,
                                                   results[test]))
    /\ idx' = idx + 1
    /\ pc' = "loop"
    /\ UNCHANGED <<tests_, runs, gcheckCalls, test, started, exitCode,
                   executions>>

\* the rest of one loop iteration once execute() has returned with the given
\* TestResults: count the case and print its row
AfterExecute(results) ==
    /\ testResult_' = results
    /\ numberOfExecutedTests_' = numberOfExecutedTests_ + 1
    /\ out' = Append(out, printTestResultTableRow(numberOfExecutedTests_ + 1,
                                                   results[test]))
    /\ idx' = idx + 1
    /\ pc' = "loop"
    /\ UNCHANGED <<tests_, runs, gcheckCalls, test, started, exitCode,
                   executions>>

\* testBody() returns normally
BodyReturns ==
    /\ pc = "body"
    /\ event' = [op |-> "return"]
    /\ AfterExecute(testResult_)

\* testBody() throws e: execute() catches it when it is a std::exception and
\* otherwise lets it leave executeTests()
BodyThrows(e) ==
    /\ pc = "body"
    /\ event' = [op |-> "throw", e |-> e]
    /\ IF Catches(e)
       THEN AfterExecute([testResult_ EXCEPT ![test] = Caught(@, e)])
       ELSE /\ pc' = "aborted"
            /\ UNCHANGED <<tests_, numberOfExecutedTests_, testResult_, idx,
                           out, runs, gcheckCalls, test, started, exitCode,
                           executions>>

\* the loop is over: printTestSummary() and executeTests() returns
PrintSummary ==
    /\ pc = "loop"
    /\ idx > Len(tests_)
    /\ out' = Append(out, printTestSummary(tests_, testResult_))
    /\ pc' = "done"
    /\ event' = [op |-> "summary"]
    /\ UNCHANGED <<tests_, numberOfExecutedTests_, testResult_, idx, runs,
                   gcheckCalls, test, started, exitCode, executions>>

\* the README's main: after executeTests() has returned, `return 0;`
MainReturns ==
    /\ pc = "done"
    /\ exitCode' = <<0>>
    /\ pc' = "exited"
    /\ event' = [op |-> "main returns"]
    /\ UNCHANGED <<tests_, numberOfExecutedTests_, testResult_, idx, out, runs,
                   gcheckCalls, executions, test, started>>

Next ==
    \/ \E c \in Cases : Construct(c)
    \/ ExecuteTests
    \/ EnterBody
    \/ \E n \in CheckNames, r \in Results, e \in Expecteds : CheckNamed(n, r, e)
    \/ \E r \in Results, e \in Expecteds : CheckUnnamed(r, e)
    \/ BodyReturns
    \/ \E e \in Throwables : BodyThrows(e)
    \/ PrintSummary
    \/ MainReturns

Spec == Init /\ [][Next]_vars

\* The program is one thread running executeTests() to its end: the loop
\* takes its next case, a body that has been entered terminates, and the
\* summary follows the last iteration.
FairSpec ==
    /\ Spec
    /\ WF_vars(EnterBody)
    /\ WF_vars(BodyReturns)
    /\ WF_vars(PrintSummary)

\* ---------------------------------------------------------------- properties
Last(q) == q[Len(q)]
Rows == SelectSeq(out, LAMBDA o : o.kind = "row")
Recognized(e) == e.derivesStdException

\* C1: in every case, numberExecutedChecks equals the number of GCHECK calls
\* (of either form) made so far in that case, whatever the mix of passing and
\* failing checks.
C1_CounterEqualsCalls ==
    \A c \in Cases : testResult_[c].numberExecutedChecks = gcheckCalls[c]

C1_Witness ==
    \E c \in Cases :
        /\ gcheckCalls[c] >= 3
        /\ Len(testResult_[c].failedChecks) = 1

\* C2: a GCHECK with result /= expected appends exactly one FailedCheck at the
\* end of the case's failedChecks, numbered with the counter after this call's
\* increment and named as supplied ("" for the two-argument form); a GCHECK
\* with result = expected appends nothing.
C2_FailedCheckAppended ==
    [][event'.op = "GCHECK" =>
        LET old == testResult_[test]
            new == testResult_'[test]
        IN  /\ new.numberExecutedChecks = old.numberExecutedChecks + 1
            /\ IF event'.result /= event'.expected
               THEN /\ Len(new.failedChecks) = Len(old.failedChecks) + 1
                    /\ SubSeq(new.failedChecks, 1, Len(old.failedChecks))
                          = old.failedChecks
                    /\ Last(new.failedChecks).checkNumber
                          = new.numberExecutedChecks
                    /\ Last(new.failedChecks).checkName
                          = IF event'.arity = 3 THEN event'.name ELSE ""
               ELSE new.failedChecks = old.failedChecks]_vars

C2_Witness ==
    /\ event.op = "GCHECK"
    /\ event.arity = 2
    /\ event.result /= event.expected
    /\ testResult_[test].numberExecutedChecks = 2
    /\ Len(testResult_[test].failedChecks) = 1
    /\ testResult_[test].failedChecks[1].checkNumber = 2
    /\ testResult_[test].failedChecks[1].checkName = ""

\* C3 as stated: the k-th failed check of a case carries the number k (the
\* numbers run 1, 2, 3, ... without gaps even when passing checks are
\* interspersed).
C3_NumbersConsecutiveFromOne ==
    \A c \in Cases :
        \A k \in 1 .. Len(testResult_[c].failedChecks) :
            testResult_[c].failedChecks[k].checkNumber = k

\* C3 amended: the numbers recorded in failedChecks are strictly increasing
\* and lie between 1 and numberExecutedChecks; they run 1, 2, 3, ... without
\* gaps only when every check of the case so far has failed.
C3_NumbersIncreasing ==
    \A c \in Cases :
        LET f == testResult_[c].failedChecks
            n == testResult_[c].numberExecutedChecks
        IN  /\ \A k \in 1 .. Len(f) : f[k].checkNumber \in k .. n
            /\ \A k \in 1 .. Len(f) - 1 :
                  f[k].checkNumber < f[k + 1].checkNumber
            /\ Len(f) = n => \A k \in 1 .. Len(f) : f[k].checkNumber = k

C3_Witness ==
    \E c \in Cases :
        LET f == testResult_[c].failedChecks
        IN  /\ Len(f) = 2
            /\ f[1].checkNumber = 1
            /\ f[2].checkNumber = 3

\* C4: when a body raises a recognized error after N GCHECK calls, the case is
\* left with numberExecutedChecks = N, its failedChecks as they were, and
\* exactly one more entry (the raised error's message and type) at the end of
\* its exceptions; the body is over, so no later check is counted.
C4_RaiseKeepsChecksAddsOneException ==
    [][(event'.op = "throw" /\ Recognized(event'.e)) =>
        /\ testResult_'[test].numberExecutedChecks = gcheckCalls[test]
        /\ gcheckCalls' = gcheckCalls
        /\ testResult_'[test].failedChecks = testResult_[test].failedChecks
        /\ testResult_'[test].exceptions
              = Append(testResult_[test].exceptions,
                       [message |-> event'.e.what, type |-> event'.e.typeName])
        /\ pc' /= "body"]_vars

C4_Witness ==
    /\ event.op = "throw"
    /\ Recognized(event.e)
    /\ gcheckCalls[test] = 2
    /\ Len(testResult_[test].failedChecks) = 1
    /\ Len(testResult_[test].exceptions) = 1

\* C5: executeTests does not stop on failure: whenever the loop is between two
\* cases, every case before the loop position has been executed, and when
\* executeTests has returned every registered case has been executed,
\* whatever failed checks or captured exceptions the earlier cases have.
C5_NoStopOnFailure ==
    /\ pc = "loop" => \A i \in 1 .. Len(tests_) :
                         i < idx <=> tests_[i] \in Range(started)
    /\ event.op = "summary" => \A i \in 1 .. Len(tests_) :
                                  tests_[i] \in Range(started)

C5_Witness ==
    /\ event.op = "summary"
    /\ Len(tests_) >= 2
    /\ testResult_[tests_[1]].failedChecks /= <<>>
    /\ testResult_[tests_[1]].exceptions /= <<>>
    /\ gcheckCalls[tests_[2]] > 0

\* C6: the cases are executed one at a time in the order of tests_ (the
\* registration order), and the rows are emitted in that order: a case is
\* entered only when the rows of all its predecessors are out.
C6_RegistrationOrder ==
    /\ \A i \in 1 .. Len(tests_) : tests_[i] = i
    /\ Len(started) <= Len(tests_)
    /\ \A i \in 1 .. Len(started) : started[i] = tests_[i]
    /\ Len(Rows) = IF pc \in {"body", "aborted"}
                   THEN Len(started) - 1 ELSE Len(started)
    /\ \A k \in 1 .. Len(Rows) : Rows[k].testName = TestNameOf(started[k])

C6_Witness ==
    /\ pc = "body"
    /\ Len(started) = 2
    /\ Len(Rows) = 1

\* C7: an exception outside the recognized family is not caught: the step
\* records nothing, prints nothing and leaves executeTests; from then on
\* nothing happens, so the later cases are never executed and no summary is
\* emitted.
C7_UnrecognizedPropagates ==
    [][/\ pc /= "aborted"
       /\ (event'.op = "throw" /\ ~Recognized(event'.e)) =>
            /\ pc' = "aborted"
            /\ testResult_' = testResult_
            /\ numberOfExecutedTests_' = numberOfExecutedTests_
            /\ out' = out
            /\ \A k \in 1 .. Len(out') : out'[k].kind /= "summary"
            /\ started' = SubSeq(tests_', 1, idx')]_vars

C7_Witness ==
    /\ pc = "aborted"
    /\ event.op = "throw"
    /\ ~Recognized(event.e)
    /\ idx < Len(tests_)
    /\ testResult_[test].exceptions = <<>>

\* C8: the status in the row of a case follows the precedence EXCEPTION (any
\* captured exception), else FAILED (any failed check), else PASSED (any
\* executed check), else NOT PERFORMED.
C8_StatusPrecedence ==
    (pc = "loop" /\ event.op \in {"return", "throw"}) =>
        LET row == Last(out)
            r == testResult_[test]
        IN  /\ row.kind = "row"
            /\ row.status \in {"EXCEPTION", "FAILED", "PASSED", "NOT PERFORMED"}
            /\ row.status = "EXCEPTION" <=> Len(r.exceptions) >= 1
            /\ row.status = "FAILED" <=>
                  (Len(r.exceptions) = 0 /\ Len(r.failedChecks) >= 1)
            /\ row.status = "PASSED" <=>
                  (Len(r.exceptions) = 0 /\ Len(r.failedChecks) = 0
                   /\ r.numberExecutedChecks >= 1)
            /\ row.status = "NOT PERFORMED" <=>
                  (Len(r.exceptions) = 0 /\ Len(r.failedChecks) = 0
                   /\ r.numberExecutedChecks = 0)

C8_Witness ==
    /\ pc = "loop"
    /\ event.op = "throw"
    /\ Last(out).kind = "row"
    /\ Last(out).status = "EXCEPTION"
    /\ Last(out).failed >= 1

\* C9: the passed / failed / exception counts of the summary, with the cases
\* that are not performed, partition the registered cases: a case with a
\* captured exception is counted neither as passed nor as failed.
C9_CountsPartition ==
    event.op = "summary" =>
        LET passed == getPassedTests(tests_, testResult_)
            failed == getFailedTests(tests_, testResult_)
            withExceptions == getTestsWithExceptions(tests_, testResult_)
            notPerformed ==
                {i \in 1 .. Len(tests_) :
                    /\ testResult_[tests_[i]].exceptions = <<>>
                    /\ testResult_[tests_[i]].failedChecks = <<>>
                    /\ testResult_[tests_[i]].numberExecutedChecks = 0}
        IN  /\ Len(passed) + Len(failed) + Len(withExceptions)
                  + Cardinality(notPerformed) = Len(tests_)
            /\ \A c \in Range(withExceptions) :
                  c \notin Range(passed) /\ c \notin Range(failed)

\* C10: the overall result is SUCCESS exactly when no registered case has a
\* failed check, and FAILED otherwise; captured exceptions and cases without
\* checks do not count.
C10_OverallResult ==
    event.op = "summary" =>
        LET s == Last(out)
            noFailedCheck == \A i \in 1 .. Len(tests_) :
                                testResult_[tests_[i]].failedChecks = <<>>
        IN  /\ s.kind = "summary"
            /\ s.result = (IF noFailedCheck THEN "SUCCESS!" ELSE "FAILED")

C10_Witness ==
    /\ event.op = "summary"
    /\ Last(out).result = "SUCCESS!"
    /\ \E i \in 1 .. Len(tests_) : testResult_[tests_[i]].exceptions /= <<>>
    /\ \E i \in 1 .. Len(tests_) :
          /\ testResult_[tests_[i]].exceptions = <<>>
          /\ testResult_[tests_[i]].numberExecutedChecks = 0

\* C11: the run entry point hands its caller a success/failure signal, and
\* the signal is failure (non-zero) whenever the total number of failed
\* checks after the run is greater than 0.
C11_FailureSignalled ==
    exitCode /= <<>> =>
        ((\E i \in 1 .. Len(tests_) :
             testResult_[tests_[i]].failedChecks /= <<>>)
         => exitCode[1] /= 0)

\* C12: over any sequence of calls, also with more than one call of
\* executeTests, the body of each registered case is executed at most once,
\* and it has been executed exactly once when a call has returned with the
\* case registered.
C12_ExecutedOnce ==
    /\ \A c \in Cases : executions[c] <= 1
    /\ event.op = "summary" =>
          \A i \in 1 .. Len(tests_) : executions[tests_[i]] = 1

\* C13: a GCHECK raises nothing and does not end the case, also when it
\* fails: the body is still running after the call and the case has no new
\* exception; a GCHECK made right after a failed one is counted and, when it
\* fails too, recorded.
C13_FailureDoesNotEndBody ==
    [][event'.op = "GCHECK" =>
        /\ pc = "body" /\ pc' = "body"
        /\ test' = test /\ idx' = idx /\ out' = out
        /\ testResult_'[test].exceptions = testResult_[test].exceptions
        /\ (event.op = "GCHECK" /\ event.result /= event.expected) =>
              /\ testResult_'[test].numberExecutedChecks
                    = testResult_[test].numberExecutedChecks + 1
              /\ Len(testResult_'[test].failedChecks)
                    = Len(testResult_[test].failedChecks)
                      + (IF event'.result /= event'.expected THEN 1 ELSE 0)]_vars

C13_Witness ==
    /\ pc = "body"
    /\ event.op = "GCHECK"
    /\ event.arity = 3
    /\ event.result /= event.expected
    /\ Len(testResult_[test].failedChecks) = 2
    /\ testResult_[test].failedChecks[1].checkNumber = 1
    /\ testResult_[test].failedChecks[2].checkNumber = 2
    /\ testResult_[test].exceptions = <<>>

\* C14: in every reachable state and for every case, failedChecks is no longer
\* than numberExecutedChecks, and every recorded checkNumber lies between 1
\* and numberExecutedChecks.
C14_FailedWithinExecuted ==
    \A c \in Cases :
        /\ Len(testResult_[c].failedChecks) <= testResult_[c].numberExecutedChecks
        /\ \A k \in 1 .. Len(testResult_[c].failedChecks) :
              testResult_[c].failedChecks[k].checkNumber
                 \in 1 .. testResult_[c].numberExecutedChecks

\* a case with a passed check between two failed ones: the bound is strict
\* and the last number reaches it
C14_Witness ==
    \E c \in Cases :
        /\ testResult_[c].numberExecutedChecks = 3
        /\ Len(testResult_[c].failedChecks) = 2
        /\ testResult_[c].failedChecks[1].checkNumber = 1
        /\ testResult_[c].failedChecks[2].checkNumber = 3

\* C15: sequence numbers are per-case: the first check a case makes has
\* number 1 whatever checks the cases executed before it made, and within one
\* case no two failed checks carry the same number.
C15_NumbersPerCase ==
    [][event'.op = "GCHECK" =>
        /\ gcheckCalls[test] = 0 =>
              /\ testResult_'[test].numberExecutedChecks = 1
              /\ event'.result /= event'.expected =>
                    /\ testResult_'[test].failedChecks /= <<>>
                    /\ Last(testResult_'[test].failedChecks).checkNumber = 1
        /\ \A c \in Cases :
              \A j, k \in 1 .. Len(testResult_'[c].failedChecks) :
                 j /= k => testResult_'[c].failedChecks[j].checkNumber
                              /= testResult_'[c].failedChecks[k].checkNumber]_vars

\* the second case's first check failed and got number 1 although the first
\* case had made two checks (one of them failed) before it
C15_Witness ==
    /\ pc = "body" /\ test = 2 /\ event.op = "GCHECK"
    /\ gcheckCalls[1] = 2 /\ gcheckCalls[2] = 1
    /\ Len(testResult_[1].failedChecks) = 1
    /\ Len(testResult_[2].failedChecks) = 1
    /\ testResult_[2].failedChecks[1].checkNumber = 1

\* C16: output is streamed in order: the header is out before any case
\* executes; the row of case i is out after case i has finished and before
\* case i+1 starts; a row's number is the executed-cases counter after its
\* increment for that case; the summary comes only after the last case's row.
C16_StreamedOrder ==
    /\ (out = <<>>) <=> (runs = 0)
    /\ started /= <<>> => out /= <<>>
    /\ out /= <<>> =>
          /\ out[1] = Header
          /\ \A k \in 2 .. Len(out) :
                IF k = Len(out) /\ pc \in {"done", "exited"}
                THEN out[k].kind = "summary" ELSE out[k].kind = "row"
          /\ pc \in {"done", "exited"} =>
                /\ Last(out).kind = "summary"
                /\ Len(out) = Len(started) + 2
    /\ pc = "body" => Len(Rows) = Len(started) - 1
    /\ pc = "loop" => Len(Rows) = Len(started) /\ Len(started) = idx - 1
    /\ \A k \in 1 .. Len(Rows) :
          /\ Rows[k].testName = TestNameOf(started[k])
          /\ Rows[k].testNo = numberOfExecutedTests_ - Len(Rows) + k
    /\ event.op = "summary" =>
          /\ Len(Rows) = Len(tests_)
          /\ started = tests_

\* the end of a second run over two cases, the first run having had one:
\* header, rows 2 and 3, summary
C16_Witness ==
    /\ event.op = "summary" /\ runs = 2
    /\ Len(out) = 4
    /\ Rows[1].testNo = 2 /\ Rows[2].testNo = 3
    /\ numberOfExecutedTests_ = 3

RECURSIVE AllFailedChecks(_)
AllFailedChecks(ts) ==
    IF ts = <<>> THEN <<>>
    ELSE [k \in 1 .. Len(testResult_[Head(ts)].failedChecks) |->
              <<testResult_[Head(ts)].testName,
                testResult_[Head(ts)].failedChecks[k]>>]
         \o AllFailedChecks(Tail(ts))

RECURSIVE AllExceptions(_)
AllExceptions(ts) ==
    IF ts = <<>> THEN <<>>
    ELSE [k \in 1 .. Len(testResult_[Head(ts)].exceptions) |->
              <<testResult_[Head(ts)].testName,
                testResult_[Head(ts)].exceptions[k]>>]
         \o AllExceptions(Tail(ts))

\* C17: after a run the summary lists every failed check of every case, one
\* line each, cases in registration order and checks in detection order, and
\* every captured exception of every case, also for a case that has both;
\* nothing is omitted or listed twice.
C17_SummaryListsEverything ==
    (pc \in {"done", "exited"} /\ out /= <<>>) =>
        LET summary == Last(out)
            failed == AllFailedChecks(tests_)
            raised == AllExceptions(tests_)
        IN  /\ summary.kind = "summary"
            /\ Len(summary.failedLines) = Len(failed)
            /\ \A i \in 1 .. Len(failed) :
                  /\ summary.failedLines[i].testName = failed[i][1]
                  /\ summary.failedLines[i].checkNumber = failed[i][2].checkNumber
                  /\ summary.failedLines[i].checkName = failed[i][2].checkName
                  /\ summary.failedLines[i].failMessage = failed[i][2].failMessage
            /\ Len(summary.exceptionLines) = Len(raised)
            /\ \A i \in 1 .. Len(raised) :
                  /\ summary.exceptionLines[i].testName = raised[i][1]
                  /\ summary.exceptionLines[i].type = raised[i][2].type
                  /\ summary.exceptionLines[i].message = raised[i][2].message

\* a summary after a case with a failed check and an exception, followed by a
\* case with two failed checks
C17_Witness ==
    /\ event.op = "summary" /\ Len(tests_) = 2
    /\ Len(testResult_[1].failedChecks) = 1
    /\ Len(testResult_[1].exceptions) = 1
    /\ Len(testResult_[2].failedChecks) = 2
    /\ Len(Last(out).failedLines) = 3
    /\ Len(Last(out).exceptionLines) = 1

\* C18: executing one case changes only that case's TestResult: the
\* TestResults of the other cases, the test names and the registry's list are
\* unchanged by it; the reporting steps (row, summary) change no TestResult.
C18_ExecutionFrame ==
    [][
        /\ event'.op \in {"enter", "GCHECK", "return", "throw"} =>
             /\ tests_' = tests_
             /\ \A c \in Cases :
                   /\ c /= test' => testResult_'[c] = testResult_[c]
                   /\ testResult_'[c].testName = testResult_[c].testName
        /\ event'.op \in {"executeTests", "enter", "return", "summary",
                           "main returns"} =>
             testResult_' = testResult_
        /\ event'.op = "throw" =>
             /\ testResult_'[test].numberExecutedChecks
                   = testResult_[test].numberExecutedChecks
             /\ testResult_'[test].failedChecks = testResult_[test].failedChecks
      ]_vars

\* the second case has just been ended by a caught exception while the
\* first keeps its two checks, one failed, and no exception
C18_Witness ==
    /\ event.op = "throw" /\ test = 2 /\ pc = "loop"
    /\ testResult_[2].exceptions /= <<>>
    /\ testResult_[1].numberExecutedChecks = 2
    /\ Len(testResult_[1].failedChecks) = 1
    /\ testResult_[1].exceptions = <<>>

\* C19: constructing a test case appends exactly one reference to it at the
\* end of the one registry's list and leaves the earlier entries and their
\* order unchanged; the case starts with the given name, zero executed
\* checks, no failed checks and no exceptions; a case that was never
\* constructed is never executed.
C19_ConstructionRegisters ==
    /\ [](\A c \in Cases :
            c \notin Range(tests_) =>
               /\ executions[c] = 0 /\ gcheckCalls[c] = 0
               /\ c \notin Range(started)
               /\ testResult_[c] = EmptyTestResult)
    /\ [][event'.op = "construct" =>
             /\ Len(tests_') = Len(tests_) + 1
             /\ Last(tests_') = event'.c
             /\ event'.c \notin Range(tests_)
             /\ \A i \in 1 .. Len(tests_) : tests_'[i] = tests_[i]
             /\ testResult_'[event'.c] =
                   [testName |-> TestNameOf(event'.c), numberExecutedChecks |-> 0,
                    failedChecks |-> <<>>, exceptions |-> <<>>]
             /\ \A c \in Cases \ {event'.c} : testResult_'[c] = testResult_[c]]_vars

\* a second case has been constructed after a run in which the first one
\* recorded a failed check
C19_Witness ==
    /\ event.op = "construct" /\ event.c = 2
    /\ tests_ = <<1, 2>>
    /\ runs = 1 /\ executions = <<1, 0>>
    /\ testResult_[1].failedChecks /= <<>>
    /\ testResult_[2].numberExecutedChecks = 0

\* C20: if every body terminates, normally or by a recognized exception, a
\* call of executeTests on a registry with n registered cases terminates
\* after executing all n cases and emitting the summary, and it has increased
\* the executed-cases counter by exactly n. (A body ended by an unrecognized
\* exception, outside the premise, leaves the run aborted.)
C20_RunTerminates ==
    /\ (event.op = "executeTests")
          ~> (event.op = "summary" \/ pc = "aborted")
    /\ [](event.op = "executeTests" => idx = 1 /\ started = <<>>)
    /\ [](event.op = "summary" =>
             idx = Len(tests_) + 1 /\ started = tests_)
    /\ [][(pc = "loop" \/ pc = "body") =>
             /\ tests_' = tests_
             /\ pc' /= "aborted" =>
                   (numberOfExecutedTests_' - idx') = (numberOfExecutedTests_ - idx)]_vars

\* the end of a second run over two cases, one of them ended by a caught
\* exception in both runs: the counter stands at 4
C20_Witness ==
    /\ event.op = "summary" /\ runs = 2
    /\ started = <<1, 2>>
    /\ numberOfExecutedTests_ = 4
    /\ \E c \in Cases : Len(testResult_[c].exceptions) = 2

\* C21: the total of executed checks reported in the summary is the sum of
\* numberExecutedChecks over all registered cases, and the total of failed
\* checks is the sum of the failedChecks lengths over all registered cases,
\* cases ended by an exception included.
C21_TotalsAreSums ==
    (pc \in {"done", "exited"} /\ out /= <<>>) =>
        LET n == Len(tests_)
            executed == [i \in 1 .. n |->
                            testResult_[tests_[i]].numberExecutedChecks]
            failed == [i \in 1 .. n |-> Len(testResult_[tests_[i]].failedChecks)]
            totalFailed == numberOfFailedChecks(tests_, testResult_)
        IN  /\ Last(out).kind = "summary"
            /\ Last(out).noExecutedChecks = SumUpTo(executed, n)
            /\ Last(out).noExecutedChecks = ChecksMade
            /\ numberOfExecutedChecks(tests_, testResult_) = SumUpTo(executed, n)
            /\ totalFailed = SumUpTo(failed, n)
            /\ totalFailed = Len(Last(out).failedLines)
            /\ (Last(out).result = "FAILED") <=> (SumUpTo(failed, n) > 0)

\* a summary after a case with two checks, one failed, that was ended by an
\* exception, and a case with one failed check: 3 executed, 2 failed
C21_Witness ==
    /\ event.op = "summary" /\ tests_ = <<1, 2>>
    /\ testResult_[1].numberExecutedChecks = 2
    /\ Len(testResult_[1].failedChecks) = 1
    /\ testResult_[1].exceptions /= <<>>
    /\ testResult_[2].numberExecutedChecks = 1
    /\ Len(testResult_[2].failedChecks) = 1
    /\ Last(out).noExecutedChecks = 3
    /\ numberOfFailedChecks(tests_, testResult_) = 2

====
